---- MODULE Spec2Model ----
(***************************************************************************)
(* Plugin routing and conversation state of the personal assistant:        *)
(* PluginManager (the registry and its loader), ConversationManager (the   *)
(* bounded history and the fallback responder) and PersonalAssistant (the  *)
(* orchestrator's process_input and reset_conversation).                   *)
(*                                                                         *)
(* Strings that the code builds by formatting are modelled as tuples of    *)
(* their pieces, so that two responses are equal exactly when every piece  *)
(* is.  A raised exception is a record [base, msg]: base says whether the  *)
(* class derives from Exception (caught by "except Exception") or only     *)
(* from BaseException (KeyboardInterrupt, SystemExit: not caught).         *)
(***************************************************************************)
EXTENDS Integers, Sequences, FiniteSets, TLC

VARIABLES
    plugins,      \* PluginManager.plugins: the dict, as its entries in insertion order
    registered,   \* every instance the loader stored, in the order it stored them
    history,      \* ConversationManager.conversation_history
    initialized,  \* ConversationManager._initialized
    now,          \* the last reading of the clock (datetime.now())
    steps,        \* number of operations performed so far
    varied,       \* number of operations other than the default call (long runs)
    log,          \* every exchange appended since construction or the last reset
    running,      \* CLIInterface.running
    last          \* what the most recent operation was given, did and returned

vars ==
    <<plugins, registered, history, initialized, now, steps, varied, log, running, last>>

----------------------------------------------------------------------------
(* Bounds of the model. *)

MaxCalls == 2

MaxFiles == 2

MaxCapCalls == 52

MaxVaried == 1

MaxApiCalls == 3

(* ConversationManager.add_exchange keeps the last 50 exchanges. *)
MAX_HISTORY == 50

----------------------------------------------------------------------------
(* Dicts (context maps, plugin configuration) are functions on string keys. *)

EmptyMap == [k \in {} |-> 0]

(* {**base, **over}: the keys of both, over's value where both have the key. *)
DictMerge(base, over) ==
    [k \in (DOMAIN base) \cup (DOMAIN over) |->
        IF k \in DOMAIN over THEN over[k] ELSE base[k]]

(* d.get(key, default) *)
DictGet(d, key, default) == IF key \in DOMAIN d THEN d[key] ELSE default

----------------------------------------------------------------------------
(* Exceptions. *)

Exc(base, msg) == [base |-> base, msg |-> msg]

NoExc == Exc("none", "")

(* "except Exception" catches the classes derived from Exception only. *)
IsCaught(exc) == exc.base = "Exception"

----------------------------------------------------------------------------
(* Plugins.  BasePlugin is abstract: can_handle and execute are whatever a *)
(* subclass makes them.  The classes below are the subclasses the model    *)
(* loads; each is given by the inputs it claims and by what its methods    *)
(* raise.                                                                  *)

Inputs == {"remind me", "add task buy milk", "what's the weather"}

Classes == {"Tasks", "Reminders", "Flaky", "Picky", "Halts", "Unfinished"}

(* A subclass that leaves an abstract method undefined cannot be           *)
(* instantiated: calling the class raises TypeError.                       *)
Instantiable(cls) == cls # "Unfinished"

(* The inputs for which a class's can_handle returns True.  "Tasks" claims *)
(* what TaskPlugin's keyword list claims: "remind" and "task".            *)
Claims(cls) ==
    CASE cls = "Tasks"     -> {"remind me", "add task buy milk"}
      [] cls = "Reminders" -> {"remind me"}
      [] cls = "Flaky"     -> {"remind me", "add task buy milk"}
      [] cls = "Picky"     -> {}
      [] cls = "Halts"     -> {"add task buy milk"}
      [] OTHER             -> {}

(* BasePlugin.__init__: the instance keeps its class and config.get("enabled", True). *)
BasePlugin(cls, config) ==
    [cls |-> cls, enabled |-> DictGet(config, "enabled", TRUE)]

(* What a call of a plugin method does: it raises exc, or it returns value. *)
Returned(value) == [raises |-> FALSE, exc |-> NoExc, value |-> value]

Raised(exc, typed) == [raises |-> TRUE, exc |-> exc, value |-> typed]

----------------------------------------------------------------------------
(* Text.  A Python str is modelled as the sequence of its characters; a    *)
(* character outside ASCII is written by its code point.                   *)

Uppers ==
    <<"A", "B", "C", "D", "E", "F", "G", "H", "I", "J", "K", "L", "M",
      "N", "O", "P", "Q", "R", "S", "T", "U", "V", "W", "X", "Y", "Z">>

Lowers ==
    <<"a", "b", "c", "d", "e", "f", "g", "h", "i", "j", "k", "l", "m",
      "n", "o", "p", "q", "r", "s", "t", "u", "v", "w", "x", "y", "z">>

DigitChars == <<"0", "1", "2", "3", "4", "5", "6", "7", "8", "9">>

(* The characters str.strip() removes. *)
Whitespace == {" ", "\t", "\n", "\r", "\f"}

(* The lower-case letter of each capital. *)
LowerOf ==
    [c \in {Uppers[i] : i \in 1..Len(Uppers)} |->
        Lowers[CHOOSE i \in 1..Len(Uppers) : Uppers[i] = c]]

LowerChar(c) == IF c \in DOMAIN LowerOf THEN LowerOf[c] ELSE c

(* str.lower() *)
lower(s) == [i \in 1..Len(s) |-> LowerChar(s[i])]

(* sub in s *)
Contains(s, sub) ==
    \E i \in 1..(Len(s) - Len(sub) + 1) :
        /\ s[i] = sub[1]
        /\ SubSeq(s, i, i + Len(sub) - 1) = sub

RECURSIVE lstrip(_)
lstrip(s) ==
    IF s # <<>> /\ Head(s) \in Whitespace THEN lstrip(Tail(s)) ELSE s

RECURSIVE rstrip(_)
rstrip(s) ==
    IF s # <<>> /\ s[Len(s)] \in Whitespace
    THEN rstrip(SubSeq(s, 1, Len(s) - 1))
    ELSE s

(* str.strip() *)
strip(s) == rstrip(lstrip(s))

(* The classes of the two patterns: "." is any character but a newline,    *)
(* "\d" is a decimal digit.                                                *)
IsDot(c) == c # "\n"

Digits == {DigitChars[i] : i \in 1..Len(DigitChars)}

IsDigit(c) == c \in Digits

(* Whether character c is of the class named. *)
DotClass == "."

DigitClass == "\\d"

Matches(c, class) == IF class = DigitClass THEN IsDigit(c) ELSE IsDot(c)

LeastOf(S) == CHOOSE x \in S : \A y \in S : x <= y

(* re.search(literal + "(class+)", s, re.IGNORECASE): the position where   *)
(* the group of the leftmost match starts, 0 when nothing matches.         *)
re_search(s, literal, class) ==
    LET low    == lower(s)
        starts == {p \in 1..(Len(s) - Len(literal)) :
                      /\ low[p] = literal[1]
                      /\ SubSeq(low, p, p + Len(literal) - 1) = literal
                      /\ Matches(s[p + Len(literal)], class)}
    IN  IF starts = {} THEN 0 ELSE LeastOf(starts) + Len(literal)

(* match.group(1): the group is greedy, it runs to the last character of   *)
(* the class before the first one that is not.                             *)
group(s, from, class) ==
    LET stops == {i \in from..Len(s) : ~Matches(s[i], class)}
    IN  SubSeq(s, from, IF stops = {} THEN Len(s) ELSE LeastOf(stops) - 1)

(* sys.int_info.default_max_str_digits: int() refuses a longer string.    *)
MAX_STR_DIGITS == 4300

ValueError ==
    Exc("Exception", "Exceeds the limit (4300 digits) for integer string conversion")

(* A Python int is kept as its decimal digits without leading zeros, so    *)
(* that it has no width.                                                   *)
Canonical(digits) ==
    IF \A i \in 1..Len(digits) : digits[i] = "0"
    THEN <<"0">>
    ELSE SubSeq(digits,
                CHOOSE i \in 1..Len(digits) :
                    /\ digits[i] # "0"
                    /\ \A j \in 1..(i - 1) : digits[j] = "0",
                Len(digits))

(* int(digits) *)
int(digits) ==
    IF Len(digits) > MAX_STR_DIGITS
    THEN Raised(ValueError, <<>>)
    ELSE Returned(Canonical(digits))

(* str(n) of a natural number n, as in f"{n}". *)
RECURSIVE str(_)
str(n) ==
    IF n < 10 THEN <<DigitChars[n + 1]>>
    ELSE str(n \div 10) \o <<DigitChars[(n % 10) + 1]>>

----------------------------------------------------------------------------
(* TaskPlugin (src/plugins/task_plugin.py). *)

(* TaskPlugin.__init__ *)
TaskPlugin(config) ==
    [cls |-> "TaskPlugin", enabled |-> DictGet(config, "enabled", TRUE), tasks |-> <<>>]

Keywords ==
    << <<"t", "a", "s", "k">>,
       <<"t", "o", "d", "o">>,
       <<"t", "o", "-", "d", "o">>,
       <<"r", "e", "m", "i", "n", "d">>,
       <<"r", "e", "m", "e", "m", "b", "e", "r">> >>

(* A can_handle that does not lower-case the input. *)
TaskPlugin_can_handle_cased(user_input) ==
    \E k \in 1..Len(Keywords) : Contains(user_input, Keywords[k])

(* TaskPlugin.can_handle *)
TaskPlugin_can_handle(user_input) ==
    \E k \in 1..Len(Keywords) : Contains(lower(user_input), Keywords[k])

(* What a TaskPlugin method leaves: what it returned or raised, and the    *)
(* task list after it.                                                     *)
Left(ret, tasks) == [ret |-> ret, tasks |-> tasks]

(* The literal parts of the three patterns, r'add task (.+)',             *)
(* r'complete task (\d+)' and r'remove task (\d+)'.                        *)
AddPattern == <<"a", "d", "d", " ", "t", "a", "s", "k", " ">>

CompletePattern == <<"c", "o", "m", "p", "l", "e", "t", "e", " ", "t", "a", "s", "k", " ">>

RemovePattern == <<"r", "e", "m", "o", "v", "e", " ", "t", "a", "s", "k", " ">>

(* The words execute looks for. *)
AddWord == <<"a", "d", "d">>

ListWord == <<"l", "i", "s", "t">>

CompleteWord == <<"c", "o", "m", "p", "l", "e", "t", "e">>

RemoveWord == <<"r", "e", "m", "o", "v", "e">>

TaskWord == <<"t", "a", "s", "k">>

AddUsage ==
    <<"P", "l", "e", "a", "s", "e", " ", "p", "r", "o", "v", "i", "d", "e",
      " ", "a", " ", "t", "a", "s", "k", " ", "d", "e", "s", "c", "r", "i",
      "p", "t", "i", "o", "n", ".", " ", "E", "x", "a", "m", "p", "l", "e",
      ":", " ", "'", "a", "d", "d", " ", "t", "a", "s", "k", " ", "b", "u",
      "y", " ", "g", "r", "o", "c", "e", "r", "i", "e", "s", "'">>

AddedPrefix ==
    <<"U+2705", " ", "A", "d", "d", "e", "d", " ", "t", "a", "s", "k", ":",
      " ">>

(* An _add_task that stores the description lower-cased. *)
add_task_lowered(tasks, user_input, t) ==
    LET at == re_search(user_input, AddPattern, DotClass)
    IN  IF at = 0
        THEN Left(Returned(AddUsage), tasks)
        ELSE LET description == lower(strip(group(user_input, at, DotClass)))
                 task == [id          |-> Len(tasks) + 1,
                          description |-> description,
                          created     |-> t,
                          completed   |-> FALSE]
             IN  Left(Returned(AddedPrefix \o description), Append(tasks, task))

(* TaskPlugin._add_task; t is the reading of datetime.now(). *)
add_task(tasks, user_input, t) ==
    LET at == re_search(user_input, AddPattern, DotClass)
    IN  IF at = 0
        THEN Left(Returned(AddUsage), tasks)
        ELSE LET description == strip(group(user_input, at, DotClass))
                 task == [id          |-> Len(tasks) + 1,
                          description |-> description,
                          created     |-> t,
                          completed   |-> FALSE]
             IN  Left(Returned(AddedPrefix \o description), Append(tasks, task))

NoTasksFound ==
    <<"U+1F4DD", " ", "N", "o", " ", "t", "a", "s", "k", "s", " ", "f",
      "o", "u", "n", "d", ".", " ", "A", "d", "d", " ", "a", " ", "t", "a",
      "s", "k", " ", "w", "i", "t", "h", " ", "'", "a", "d", "d", " ", "t",
      "a", "s", "k", " ", "[", "d", "e", "s", "c", "r", "i", "p", "t", "i",
      "o", "n", "]", "'">>

TasksHeader ==
    <<"U+1F4DD", " ", "*", "*", "Y", "o", "u", "r", " ", "T", "a", "s",
      "k", "s", ":", "*", "*", "\n", "\n">>

ActiveHeader ==
    <<"*", "*", "A", "c", "t", "i", "v", "e", " ", "T", "a", "s", "k", "s",
      ":", "*", "*", "\n">>

CompletedHeader ==
    <<"*", "*", "C", "o", "m", "p", "l", "e", "t", "e", "d", " ", "T", "a",
      "s", "k", "s", ":", "*", "*", "\n">>

ActiveLead == <<" ", " ">>

CompletedLead == <<" ", " ", "U+2713", " ">>

(* The lines of one section of the list: f"{lead}{id}. {description}\n".  *)
RECURSIVE TaskLines(_, _)
TaskLines(ts, lead) ==
    IF ts = <<>> THEN <<>>
    ELSE lead \o str(Head(ts).id) \o <<".", " ">> \o Head(ts).description \o <<"\n">>
         \o TaskLines(Tail(ts), lead)

IsCompleted(task) == task.completed

IsActive(task) == ~task.completed

(* A _list_tasks that leaves the completed tasks out. *)
list_tasks_active_only(tasks) ==
    IF tasks = <<>>
    THEN Left(Returned(NoTasksFound), tasks)
    ELSE LET active_tasks == SelectSeq(tasks, IsActive)
             active == IF active_tasks = <<>> THEN <<>>
                       ELSE ActiveHeader \o TaskLines(active_tasks, ActiveLead)
                            \o <<"\n">>
         IN  Left(Returned(TasksHeader \o active), tasks)

(* TaskPlugin._list_tasks *)
list_tasks(tasks) ==
    IF tasks = <<>>
    THEN Left(Returned(NoTasksFound), tasks)
    ELSE LET active_tasks    == SelectSeq(tasks, IsActive)
             completed_tasks == SelectSeq(tasks, IsCompleted)
             active    == IF active_tasks = <<>> THEN <<>>
                          ELSE ActiveHeader \o TaskLines(active_tasks, ActiveLead)
                               \o <<"\n">>
             completed == IF completed_tasks = <<>> THEN <<>>
                          ELSE CompletedHeader
                               \o TaskLines(completed_tasks, CompletedLead)
         IN  Left(Returned(TasksHeader \o active \o completed), tasks)

(* TaskPlugin._find_task: the position of the first task with that id, 0   *)
(* for None.                                                               *)
find_task(tasks, task_id) ==
    LET found == {i \in 1..Len(tasks) : str(tasks[i].id) = task_id}
    IN  IF found = {} THEN 0 ELSE LeastOf(found)

CompleteUsage ==
    <<"P", "l", "e", "a", "s", "e", " ", "s", "p", "e", "c", "i", "f", "y",
      " ", "a", " ", "t", "a", "s", "k", " ", "I", "D", ".", " ", "E", "x",
      "a", "m", "p", "l", "e", ":", " ", "'", "c", "o", "m", "p", "l", "e",
      "t", "e", " ", "t", "a", "s", "k", " ", "1", "'">>

RemoveUsage ==
    <<"P", "l", "e", "a", "s", "e", " ", "s", "p", "e", "c", "i", "f", "y",
      " ", "a", " ", "t", "a", "s", "k", " ", "I", "D", ".", " ", "E", "x",
      "a", "m", "p", "l", "e", ":", " ", "'", "r", "e", "m", "o", "v", "e",
      " ", "t", "a", "s", "k", " ", "1", "'">>

NotFound(task_id) == <<"U+274C", " ", "T", "a", "s", "k", " ">> \o task_id \o <<" ", "n", "o", "t", " ", "f", "o", "u", "n", "d">>

AlreadyCompleted(task_id) == <<"U+2705", " ", "T", "a", "s", "k", " ">> \o task_id \o <<" ", "i", "s", " ", "a", "l", "r", "e", "a", "d", "y", " ", "c", "o", "m", "p", "l", "e", "t", "e", "d">>

CompletedPrefix ==
    <<"U+2705", " ", "C", "o", "m", "p", "l", "e", "t", "e", "d", " ", "t",
      "a", "s", "k", ":", " ">>

RemovedPrefix ==
    <<"U+1F5D1", "U+FE0F", " ", "R", "e", "m", "o", "v", "e", "d", " ",
      "t", "a", "s", "k", ":", " ">>

(* A _complete_task that completes a completed task again. *)
complete_task_again(tasks, user_input, t) ==
    LET at == re_search(user_input, CompletePattern, DigitClass)
    IN  IF at = 0
        THEN Left(Returned(CompleteUsage), tasks)
        ELSE LET task_id == int(group(user_input, at, DigitClass))
                 k       == IF task_id.raises THEN 0 ELSE find_task(tasks, task_id.value)
             IN  IF task_id.raises THEN Left(task_id, tasks)
                 ELSE IF k = 0 THEN Left(Returned(NotFound(task_id.value)), tasks)
                 ELSE Left(Returned(CompletedPrefix \o tasks[k].description),
                           [tasks EXCEPT ![k] =
                               DictMerge(@, [completed |-> TRUE, completed_at |-> t])])

(* TaskPlugin._complete_task; t is the reading of datetime.now(). *)
complete_task(tasks, user_input, t) ==
    LET at == re_search(user_input, CompletePattern, DigitClass)
    IN  IF at = 0
        THEN Left(Returned(CompleteUsage), tasks)
        ELSE LET task_id == int(group(user_input, at, DigitClass))
                 k       == IF task_id.raises THEN 0 ELSE find_task(tasks, task_id.value)
             IN  IF task_id.raises THEN Left(task_id, tasks)
                 ELSE IF k = 0 THEN Left(Returned(NotFound(task_id.value)), tasks)
                 ELSE IF tasks[k].completed
                      THEN Left(Returned(AlreadyCompleted(task_id.value)), tasks)
                 ELSE Left(Returned(CompletedPrefix \o tasks[k].description),
                           [tasks EXCEPT ![k] =
                               DictMerge(@, [completed |-> TRUE, completed_at |-> t])])

(* list.remove(x): the list without its first element equal to x. *)
list_remove(list, x) ==
    LET j == LeastOf({i \in 1..Len(list) : list[i] = x})
    IN  SubSeq(list, 1, j - 1) \o SubSeq(list, j + 1, Len(list))

(* TaskPlugin._remove_task *)
remove_task(tasks, user_input) ==
    LET at == re_search(user_input, RemovePattern, DigitClass)
    IN  IF at = 0
        THEN Left(Returned(RemoveUsage), tasks)
        ELSE LET task_id == int(group(user_input, at, DigitClass))
                 k       == IF task_id.raises THEN 0 ELSE find_task(tasks, task_id.value)
             IN  IF task_id.raises THEN Left(task_id, tasks)
                 ELSE IF k = 0 THEN Left(Returned(NotFound(task_id.value)), tasks)
                 ELSE Left(Returned(RemovedPrefix \o tasks[k].description),
                           list_remove(tasks, tasks[k]))

HelpText ==
    <<"I", " ", "c", "a", "n", " ", "h", "e", "l", "p", " ", "y", "o", "u",
      " ", "m", "a", "n", "a", "g", "e", " ", "t", "a", "s", "k", "s", "!",
      " ", "T", "r", "y", ":", "\n", "U+2022", " ", "'", "a", "d", "d",
      " ", "t", "a", "s", "k", " ", "[", "d", "e", "s", "c", "r", "i", "p",
      "t", "i", "o", "n", "]", "'", " ", "-", " ", "A", "d", "d", " ", "a",
      " ", "n", "e", "w", " ", "t", "a", "s", "k", "\n", "U+2022", " ",
      "'", "l", "i", "s", "t", " ", "t", "a", "s", "k", "s", "'", " ", "-",
      " ", "S", "h", "o", "w", " ", "a", "l", "l", " ", "t", "a", "s", "k",
      "s", "\n", "U+2022", " ", "'", "c", "o", "m", "p", "l", "e", "t",
      "e", " ", "t", "a", "s", "k", " ", "[", "i", "d", "]", "'", " ", "-",
      " ", "M", "a", "r", "k", " ", "t", "a", "s", "k", " ", "a", "s", " ",
      "d", "o", "n", "e", "\n", "U+2022", " ", "'", "r", "e", "m", "o",
      "v", "e", " ", "t", "a", "s", "k", " ", "[", "i", "d", "]", "'", " ",
      "-", " ", "D", "e", "l", "e", "t", "e", " ", "a", " ", "t", "a", "s",
      "k">>

(* TaskPlugin._general_task_help *)
general_task_help(tasks) == Left(Returned(HelpText), tasks)

(* TaskPlugin.execute; the context is not read. *)
TaskPlugin_execute(tasks, user_input, context, t) ==
    LET input_lower == lower(user_input)
        has(word)   == Contains(input_lower, word)
    IN  IF has(AddWord) /\ has(TaskWord) THEN add_task(tasks, user_input, t)
        ELSE IF has(ListWord) /\ has(TaskWord) THEN list_tasks(tasks)
        ELSE IF has(CompleteWord) /\ has(TaskWord) THEN complete_task(tasks, user_input, t)
        ELSE IF has(RemoveWord) /\ has(TaskWord) THEN remove_task(tasks, user_input)
        ELSE general_task_help(tasks)

----------------------------------------------------------------------------
(* The plugin methods the orchestrator calls. *)

(* plugin.can_handle(user_input) *)
can_handle(inst, input) ==
    IF inst.cls = "TaskPlugin"
    THEN Returned(TaskPlugin_can_handle(input))
    ELSE IF inst.cls = "Picky" /\ input = "remind me"
    THEN Raised(Exc("Exception", "bad input"), FALSE)
    ELSE Returned(input \in Claims(inst.cls))

(* The string a plugin's execute returns. *)
PluginOutput(cls, input) == <<"[", cls, "] done: ", input>>

(* plugin.execute(user_input, context): what it returns or raises; t is    *)
(* what the clock reads during the call.                                   *)
execute(inst, input, context, t) ==
    CASE inst.cls = "TaskPlugin" -> TaskPlugin_execute(inst.tasks, input, context, t).ret
      [] inst.cls = "Flaky" -> Raised(Exc("Exception", "boom"), <<>>)
      [] inst.cls = "Halts" -> Raised(Exc("BaseException", "KeyboardInterrupt"), <<>>)
      [] OTHER              -> Returned(PluginOutput(inst.cls, input))

(* The plugin instance after that call: only TaskPlugin keeps state.       *)
after_execute(inst, input, context, t) ==
    IF inst.cls = "TaskPlugin"
    THEN [inst EXCEPT !.tasks = TaskPlugin_execute(inst.tasks, input, context, t).tasks]
    ELSE inst

(* plugin_class(plugin_config) *)
Construct(cls, config) ==
    IF cls = "TaskPlugin" THEN TaskPlugin(config) ELSE BasePlugin(cls, config)

----------------------------------------------------------------------------
(* PluginManager: the registry and its loader. *)

(* The position of key in the dict's entries, 0 when it is absent. *)
DictIndex(reg, key) ==
    IF \E i \in 1..Len(reg) : reg[i].name = key
    THEN CHOOSE i \in 1..Len(reg) : reg[i].name = key
    ELSE 0

(* self.plugins[key] = inst.  A new key goes to the end; an existing key   *)
(* keeps its position and gets the new value.                              *)
DictSet(reg, key, inst) ==
    IF DictIndex(reg, key) = 0
    THEN Append(reg, [name |-> key, inst |-> inst])
    ELSE [reg EXCEPT ![DictIndex(reg, key)].inst = inst]

(* The loop of _load_plugin_from_file over the plugin classes of the       *)
(* module, from class i on: each is instantiated with the file's config    *)
(* and stored under the file's stem.  A class that cannot be instantiated  *)
(* raises, which ends the loop: what was stored before it stays.           *)
(* st = [plugins, registered].                                             *)
RECURSIVE LoadClasses(_, _, _, _)
LoadClasses(st, file, config, i) ==
    IF i > Len(file.classes) THEN st
    ELSE IF ~Instantiable(file.classes[i]) THEN st
    ELSE LET plugin_config == DictGet(config, file.stem, EmptyMap)
             plugin_instance == Construct(file.classes[i], plugin_config)
         IN  LoadClasses(
                 [plugins    |-> DictSet(st.plugins, file.stem, plugin_instance),
                  registered |-> Append(st.registered,
                                        [name |-> file.stem, inst |-> plugin_instance])],
                 file, config, i + 1)

(* _load_plugin_from_file: import_module raises for a module that cannot   *)
(* be imported, so such a file registers nothing.  Every exception is      *)
(* raised again as PluginError, which load_plugins catches and logs.       *)
load_plugin_from_file(st, file, config) ==
    IF ~file.imports THEN st
    ELSE LoadClasses(st, file, config, 1)

(* load_plugins: every *.py file of the directory, in glob order, except   *)
(* the files whose name starts with "__".                                  *)
RECURSIVE load_plugins(_, _, _, _)
load_plugins(st, dir, config, i) ==
    IF i > Len(dir) THEN st
    ELSE IF dir[i].dunder
         THEN load_plugins(st, dir, config, i + 1)
         ELSE load_plugins(load_plugin_from_file(st, dir[i], config), dir, config, i + 1)

(* The plugin directories and configurations the model constructs the      *)
(* assistant from.  A file's classes are listed in name order, as          *)
(* inspect.getmembers returns them.                                        *)
Stems == <<"task_plugin", "notes_plugin", "timer_plugin", "extra_plugin">>

FileBodies ==
    { [classes |-> <<"Tasks">>,              imports |-> TRUE],
      [classes |-> <<"Reminders">>,          imports |-> TRUE],
      [classes |-> <<"Flaky">>,              imports |-> TRUE],
      [classes |-> <<"Picky">>,              imports |-> TRUE],
      [classes |-> <<"Halts">>,              imports |-> TRUE],
      [classes |-> <<"Reminders", "Tasks">>, imports |-> TRUE],
      [classes |-> <<"Tasks", "Unfinished">>, imports |-> TRUE],
      [classes |-> <<"Tasks">>,              imports |-> FALSE] }

InitFile == [stem |-> "__init__", classes |-> <<>>, imports |-> TRUE, dunder |-> TRUE]

PluginFile(stem, body) ==
    [stem |-> stem, classes |-> body.classes, imports |-> body.imports, dunder |-> FALSE]

(* A directory: __init__.py and up to MaxFiles plugin files. *)
PluginDirs ==
    UNION { { <<InitFile>> \o [i \in 1..n |-> PluginFile(Stems[i], b[i])] :
                b \in [1..n -> FileBodies] } : n \in 0..MaxFiles }

(* config.plugins: per stem, no entry or {"enabled": False}; only the      *)
(* first file's entry varies.                                              *)
PluginConfigs ==
    { EmptyMap, [s \in {Stems[1]} |-> [enabled |-> FALSE]] }

----------------------------------------------------------------------------
(* ConversationManager. *)

Exchange(t, user_input, assistant_response) ==
    [timestamp |-> t, user |-> user_input, assistant |-> assistant_response]

(* An add_exchange that keeps the first MAX_HISTORY exchanges. *)
add_exchange_keeps_oldest(hist, t, user_input, assistant_response) ==
    LET appended == Append(hist, Exchange(t, user_input, assistant_response))
    IN  IF Len(appended) > MAX_HISTORY
        THEN SubSeq(appended, 1, MAX_HISTORY)
        ELSE appended

(* An add_exchange that puts the new exchange in front. *)
add_exchange_in_front(hist, t, user_input, assistant_response) ==
    LET appended == <<Exchange(t, user_input, assistant_response)>> \o hist
    IN  IF Len(appended) > MAX_HISTORY
        THEN SubSeq(appended, Len(appended) - MAX_HISTORY + 1, Len(appended))
        ELSE appended

(* An add_exchange that truncates only when the history is two over. *)
add_exchange_late(hist, t, user_input, assistant_response) ==
    LET appended == Append(hist, Exchange(t, user_input, assistant_response))
    IN  IF Len(appended) > MAX_HISTORY + 1
        THEN SubSeq(appended, Len(appended) - MAX_HISTORY + 1, Len(appended))
        ELSE appended

(* add_exchange: append the exchange stamped with the clock reading t,     *)
(* then keep the last MAX_HISTORY exchanges.                               *)
add_exchange(hist, t, user_input, assistant_response) ==
    LET appended == Append(hist, Exchange(t, user_input, assistant_response))
    IN  IF Len(appended) > MAX_HISTORY
        THEN SubSeq(appended, Len(appended) - MAX_HISTORY + 1, Len(appended))
        ELSE appended

(* The fallback responder's reply: an f-string around the input. *)
FallbackResponse(user_input) ==
    <<"I understand you said: '", user_input,
      "'. I'm still learning how to help you better!">>

NotInitializedResponse ==
    <<"I'm not properly initialized yet. Please check the configuration.">>

(* get_response: when initialized, the reply is recorded by add_exchange   *)
(* (which reads the clock: t) and returned; nothing in the try block       *)
(* raises.  The result is the reply and the history afterwards.            *)
get_response(hist, inited, t, user_input, context) ==
    IF ~inited
    THEN [response |-> NotInitializedResponse, history |-> hist, recorded |-> FALSE]
    ELSE [response |-> FallbackResponse(user_input),
          history  |-> add_exchange(hist, t, user_input, FallbackResponse(user_input)),
          recorded |-> TRUE]

(* A reset that keeps the newest exchange. *)
reset_keeps_newest(hist) ==
    IF Len(hist) = 0 THEN hist ELSE <<hist[Len(hist)]>>

(* reset: conversation_history.clear() *)
reset(hist) == <<>>

(* is_active *)
is_active(hist) == Len(hist) > 0

----------------------------------------------------------------------------
(* PersonalAssistant.process_input. *)

(* The caller's context argument: None, a dict, or a truthy value that is  *)
(* not a mapping (for which ** raises TypeError).                          *)
NoneContext == [kind |-> "none", map |-> EmptyMap]

DictContext(m) == [kind |-> "dict", map |-> m]

BadContext == [kind |-> "bad", map |-> EmptyMap]

(* (context or {}) *)
ContextOrEmpty(context) == IF context.kind = "none" THEN EmptyMap ELSE context.map

(* The dict display {"timestamp": ..., "user_input": ..., **(context or {})}: *)
(* later entries replace earlier ones with the same key.                   *)
enhanced_context(t, user_input, context) ==
    DictMerge([timestamp |-> t, user_input |-> user_input], ContextOrEmpty(context))

(* A routing loop that lets the last claimant win instead of the first. *)
RoutingScanLastWins(reg, user_input, i, asked) ==
    LET claimants == { j \in i..Len(reg) : ~can_handle(reg[j].inst, user_input).raises
                                           /\ can_handle(reg[j].inst, user_input).value }
        all == [j \in 1..Len(reg) |-> j]
    IN  IF claimants = {}
        THEN [kind |-> "none", at |-> 0, exc |-> NoExc, asked |-> all]
        ELSE [kind |-> "claimed",
              at |-> CHOOSE j \in claimants : \A k \in claimants : k <= j,
              exc |-> NoExc, asked |-> all]

(* The routing loop over self.plugin_manager.plugins.values(), from entry  *)
(* i on.  It ends at the first plugin whose can_handle raises ("raised"),  *)
(* at the first whose can_handle returns True ("claimed"), or after the    *)
(* last entry ("none").  asked lists the entries whose can_handle ran.     *)
RECURSIVE RoutingScan(_, _, _, _)
RoutingScan(reg, user_input, i, asked) ==
    IF i > Len(reg)
    THEN [kind |-> "none", at |-> 0, exc |-> NoExc, asked |-> asked]
    ELSE LET c == can_handle(reg[i].inst, user_input)
         IN  IF c.raises
             THEN [kind |-> "raised", at |-> i, exc |-> c.exc, asked |-> Append(asked, i)]
             ELSE IF c.value
                  THEN [kind |-> "claimed", at |-> i, exc |-> NoExc,
                        asked |-> Append(asked, i)]
                  ELSE RoutingScan(reg, user_input, i + 1, Append(asked, i))

(* An except branch that answers with one fixed string. *)
ErrorResponseFixed(exc) == <<"I'm sorry, I encountered an error.">>

(* The string of the except branch. *)
ErrorResponse(exc) == <<"I'm sorry, I encountered an error: ", exc.msg>>

(* An except branch that also records the error string as an exchange. *)
FaultedRecorded(hist, t, exc, asked, executed, passed) ==
    [branch   |-> "fault",
     outcome  |-> IF IsCaught(exc) THEN "returned" ELSE "propagated",
     response |-> IF IsCaught(exc) THEN ErrorResponse(exc) ELSE <<>>,
     exc      |-> exc,
     history  |-> Append(hist, [timestamp |-> t, user |-> "", assistant |-> ErrorResponse(exc)]),
     now      |-> t,
     asked    |-> asked,
     executed |-> executed,
     passed   |-> passed]

(* The end of a call in which exc was raised inside the try block: caught  *)
(* and turned into the error string when exc derives from Exception,       *)
(* propagated to the caller otherwise.  Neither records an exchange.       *)
Faulted(hist, t, exc, asked, executed, passed) ==
    [branch   |-> "fault",
     outcome  |-> IF IsCaught(exc) THEN "returned" ELSE "propagated",
     response |-> IF IsCaught(exc) THEN ErrorResponse(exc) ELSE <<>>,
     exc      |-> exc,
     history  |-> hist,
     now      |-> t,
     asked    |-> asked,
     executed |-> executed,
     passed   |-> passed]

(* The end of a call that returned from the plugin branch or the fallback. *)
Completed(branch, hist, t, response, asked, executed, passed) ==
    [branch   |-> branch,
     outcome  |-> "returned",
     response |-> response,
     exc      |-> NoExc,
     history  |-> hist,
     now      |-> t,
     asked    |-> asked,
     executed |-> executed,
     passed   |-> passed]

(* A plugin branch that returns the response without recording it. *)
PluginBranchUnrecorded(reg, hist, t1, t2, user_input, ctx, scan) ==
    LET r == execute(reg[scan.at].inst, user_input, ctx, t1)
    IN  IF r.raises
        THEN Faulted(hist, t1, r.exc, scan.asked, <<scan.at>>, ctx)
        ELSE Completed("plugin", hist, t1, r.value, scan.asked, <<scan.at>>, ctx)

(* The plugin branch: execute, during which the clock still reads t1, then *)
(* add_exchange (a second clock reading).                                  *)
PluginBranch(reg, hist, t1, t2, user_input, ctx, scan) ==
    LET r == execute(reg[scan.at].inst, user_input, ctx, t1)
    IN  IF r.raises
        THEN Faulted(hist, t1, r.exc, scan.asked, <<scan.at>>, ctx)
        ELSE Completed("plugin", add_exchange(hist, t2, user_input, r.value), t2,
                       r.value, scan.asked, <<scan.at>>, ctx)

(* The fallback branch: get_response records the exchange itself. *)
FallbackBranch(hist, inited, t1, t2, user_input, ctx, scan) ==
    LET g == get_response(hist, inited, t2, user_input, ctx)
    IN  Completed("fallback", g.history, IF g.recorded THEN t2 ELSE t1,
                  g.response, scan.asked, <<>>, ctx)

(* process_input, with the clock reading t1 for the context and t2 for the *)
(* exchange.                                                               *)
process_input(reg, hist, inited, t1, t2, user_input, context) ==
    IF context.kind = "bad"
    THEN Faulted(hist, t1, Exc("Exception", "not a mapping"), <<>>, <<>>, EmptyMap)
    ELSE LET ctx  == enhanced_context(t1, user_input, context)
             scan == RoutingScan(reg, user_input, 1, <<>>)
         IN  CASE scan.kind = "raised"  ->
                    Faulted(hist, t1, scan.exc, scan.asked, <<>>, EmptyMap)
               [] scan.kind = "claimed" ->
                    PluginBranch(reg, hist, t1, t2, user_input, ctx, scan)
               [] scan.kind = "none"    ->
                    FallbackBranch(hist, inited, t1, t2, user_input, ctx, scan)

----------------------------------------------------------------------------
(* The state after construction and the operations on it. *)

(* The contexts a caller passes: none, an extra key, the reserved keys,    *)
(* and a value that is not a mapping.                                      *)
Contexts ==
    { NoneContext,
      DictContext([source |-> "cli"]),
      DictContext([timestamp |-> -1, user_input |-> "spoofed"]),
      BadContext }

(* What an operation leaves in last: its arguments, the clock reading it   *)
(* took first, what it returned or raised, the plugins whose can_handle    *)
(* and execute it invoked, the context it passed on, and the history       *)
(* before it.                                                              *)
Observed(op, input, context, read, r, before) ==
    [op       |-> op,
     input    |-> input,
     context  |-> context,
     read     |-> read,
     branch   |-> r.branch,
     outcome  |-> r.outcome,
     response |-> r.response,
     exc      |-> r.exc,
     asked    |-> r.asked,
     executed |-> r.executed,
     passed   |-> r.passed,
     before   |-> before]

Nothing == Completed("none", <<>>, 0, <<>>, <<>>, <<>>, EmptyMap)

(* PersonalAssistant.__init__: load_plugins on the plugin directory, then  *)
(* conversation_manager.initialize(), which sets _initialized.             *)
Constructed(dir, config) ==
    LET st == load_plugins([plugins |-> <<>>, registered |-> <<>>], dir, config, 1)
    IN  /\ plugins = st.plugins
        /\ registered = st.registered
        /\ history = <<>>
        /\ initialized = TRUE
        /\ now = 0
        /\ steps = 0
        /\ varied = 0
        /\ log = <<>>
        /\ running = FALSE
        /\ last = Observed("init", "", NoneContext, 0, Nothing, <<>>)

Init == \E dir \in PluginDirs, config \in PluginConfigs : Constructed(dir, config)

(* assistant.process_input(user_input, context); the clock advances by d   *)
(* between two readings.                                                   *)
ProcessInput(user_input, context, d) ==
    LET r == process_input(plugins, history, initialized, now + d, now + d + d,
                           user_input, context)
    IN  /\ history' = r.history
        /\ now' = r.now
        /\ log' = IF r.branch = "fault" THEN log
                  ELSE Append(log, Exchange(now + d + d, user_input, r.response))
        /\ last' = Observed("process_input", user_input, context, now + d, r, history)
        /\ plugins' = IF r.executed = <<>> THEN plugins
                      ELSE [plugins EXCEPT ![r.executed[1]].inst =
                               after_execute(@, user_input, r.passed, now + d)]
        /\ UNCHANGED <<registered, initialized>>

(* conversation_manager.add_exchange(user_input, assistant_response),      *)
(* called directly.                                                        *)
AddExchange(user_input, assistant_response, d) ==
    /\ history' = add_exchange(history, now + d, user_input, assistant_response)
    /\ now' = now + d
    /\ log' = Append(log, Exchange(now + d, user_input, assistant_response))
    /\ last' = Observed("add_exchange", user_input, NoneContext, now + d,
                        Completed("none", history', now + d, assistant_response,
                                  <<>>, <<>>, EmptyMap),
                        history)
    /\ UNCHANGED <<plugins, registered, initialized>>

(* assistant.reset_conversation() *)
ResetConversation ==
    /\ history' = reset(history)
    /\ log' = <<>>
    /\ last' = Observed("reset", "", NoneContext, now,
                        Completed("none", history', now, <<>>, <<>>, <<>>, EmptyMap),
                        history)
    /\ UNCHANGED <<plugins, registered, initialized, now>>

(* One more operation, of at most bound. *)
Counted(bound) == steps < bound /\ steps' = steps + 1

Call ==
    /\ Counted(MaxCalls)
    /\ \E user_input \in Inputs, context \in Contexts :
          ProcessInput(user_input, context, 1)
    /\ UNCHANGED <<varied, running>>

Reset ==
    /\ Counted(MaxCalls)
    /\ ResetConversation
    /\ UNCHANGED <<varied, running>>

Next == Call \/ Reset

Spec == Init /\ [][Next]_vars

----------------------------------------------------------------------------
(* Long runs, to fill the history past MAX_HISTORY: one plugin, a default  *)
(* input that goes to the fallback, and at most MaxVaried operations that  *)
(* are something else.                                                     *)

DefaultInput == "what's the weather"

CapInit ==
    Constructed(<<InitFile, PluginFile(Stems[1], [classes |-> <<"Tasks">>,
                                                  imports |-> TRUE])>>,
                EmptyMap)

Varied == varied < MaxVaried /\ varied' = varied + 1

CapDefaultCall ==
    /\ Counted(MaxCapCalls)
    /\ ProcessInput(DefaultInput, NoneContext, 1)
    /\ UNCHANGED <<varied, running>>

CapOtherCall ==
    /\ Counted(MaxCapCalls)
    /\ Varied
    /\ UNCHANGED running
    /\ \E user_input \in Inputs \ {DefaultInput} :
          ProcessInput(user_input, NoneContext, 1)

CapAddExchange ==
    /\ Counted(MaxCapCalls)
    /\ Varied
    /\ UNCHANGED running
    /\ AddExchange("note to self", <<"noted">>, 1)

CapReset ==
    /\ Counted(MaxCapCalls)
    /\ Varied
    /\ UNCHANGED running
    /\ ResetConversation

CapNext == CapDefaultCall \/ CapOtherCall \/ CapAddExchange \/ CapReset

SpecCap == CapInit /\ [][CapNext]_vars

----------------------------------------------------------------------------
(* Properties of routing.  They speak about the most recent call of        *)
(* process_input, as last records it, and about the registry.              *)

WasCall == last.op = "process_input"

Entries == 1..Len(plugins)

(* The registry entries whose can_handle returns True for the input. *)
Claimants(input) ==
    { i \in Entries : ~can_handle(plugins[i].inst, input).raises
                      /\ can_handle(plugins[i].inst, input).value }

EnabledClaimants(input) == { i \in Claimants(input) : plugins[i].inst.enabled }

Earliest(S) == CHOOSE i \in S : \A j \in S : i <= j

AllEnabled == \A i \in Entries : plugins[i].inst.enabled

(* The set of entries whose execute the last call invoked. *)
Executed == { last.executed[k] : k \in 1..Len(last.executed) }

(* The plugins obey the no-raise contract for the call as far as claimant  *)
(* c: the context is a mapping, no can_handle asked before c raises, and   *)
(* c's execute returns.                                                    *)
ContractKept(input, context, c) ==
    /\ context.kind # "bad"
    /\ \A i \in 1..c : ~can_handle(plugins[i].inst, input).raises
    /\ ~execute(plugins[c].inst, input, EmptyMap, now).raises

(* C1: with every plugin enabled and an input that two or more plugins     *)
(* claim, execute is invoked on no plugin other than the earliest          *)
(* registered claimant, and (the plugins keeping their no-raise contract)  *)
(* the call returns that plugin's execute output and invokes its execute   *)
(* exactly once.                                                           *)
C1_EarliestClaimantWins ==
    (WasCall /\ AllEnabled /\ Cardinality(Claimants(last.input)) >= 2) =>
        LET first == Earliest(Claimants(last.input))
        IN  /\ Executed \subseteq {first}
            /\ ContractKept(last.input, last.context, first) =>
                  /\ last.outcome = "returned"
                  /\ last.response = PluginOutput(plugins[first].inst.cls, last.input)
                  /\ last.executed = <<first>>

(* Witness of C1: a second call in a row on an input two enabled plugins   *)
(* claim, answered by the first of them.                                   *)
C1_Witness ==
    /\ WasCall /\ AllEnabled /\ steps = 2
    /\ Cardinality(Claimants(last.input)) >= 2
    /\ ContractKept(last.input, last.context, Earliest(Claimants(last.input)))
    /\ last.branch = "plugin"
    /\ plugins[1].inst.cls # plugins[2].inst.cls
    /\ Len(last.before) = 1
    /\ last.before[1].assistant = last.response

(* C2: execute of a disabled plugin is never invoked, and an input that a  *)
(* disabled plugin claims goes to the first enabled claimant, or to the    *)
(* fallback when there is none.                                            *)
C2_DisabledNeverRouted ==
    WasCall =>
        /\ \A i \in Executed : plugins[i].inst.enabled
        /\ (/\ last.context.kind # "bad"
            /\ \A i \in Entries : ~can_handle(plugins[i].inst, last.input).raises
            /\ \A i \in Claimants(last.input) :
                  ~execute(plugins[i].inst, last.input, EmptyMap, last.read).raises) =>
              IF EnabledClaimants(last.input) = {}
              THEN last.branch = "fallback"
              ELSE last.executed = <<Earliest(EnabledClaimants(last.input))>>

(* A call in which a plugin's can_handle or execute raised: some plugin    *)
(* was asked, and the plugin asked last raised from can_handle or the one  *)
(* executed raised from execute.                                           *)
PluginRaised ==
    /\ WasCall
    /\ Len(last.asked) > 0
    /\ LET k == last.asked[Len(last.asked)]
       IN  \/ can_handle(plugins[k].inst, last.input).raises
           \/ /\ last.executed = <<k>>
              /\ execute(plugins[k].inst, last.input, last.passed, last.read).raises

(* C3: a call in which a plugin's can_handle or execute raised leaves the  *)
(* conversation history as it was before the call.                         *)
C3_FaultRecordsNothing == PluginRaised => history = last.before

(* Witness of C3: execute raised in a call made with one exchange already  *)
(* in the history.                                                         *)
C3_Witness ==
    /\ PluginRaised
    /\ Len(last.executed) = 1
    /\ Len(last.before) = 1
    /\ history = last.before

(* The exception a step of the last call raised, as the plugins and the    *)
(* context decide it: the context that is not a mapping, the can_handle of *)
(* the plugin asked last, or the execute of the plugin executed.           *)
StepRaised(exc) ==
    /\ WasCall
    /\ \/ last.context.kind = "bad" /\ exc = Exc("Exception", "not a mapping")
       \/ /\ last.context.kind # "bad"
          /\ Len(last.asked) > 0
          /\ LET k == last.asked[Len(last.asked)]
                 c == can_handle(plugins[k].inst, last.input)
                 e == execute(plugins[k].inst, last.input, last.passed, last.read)
             IN  \/ c.raises /\ exc = c.exc
                 \/ ~c.raises /\ last.executed = <<k>> /\ e.raises /\ exc = e.exc

RaisedExceptions ==
    { Exc("Exception", "not a mapping"), Exc("Exception", "bad input"),
      Exc("Exception", "boom"), Exc("BaseException", "KeyboardInterrupt") }

C6_ReservedKeysKept ==
    (WasCall /\ last.branch \in {"plugin", "fallback"}) =>
        /\ last.passed["timestamp"] = last.read
        /\ last.passed["user_input"] = last.input

(* The first instance the loader stored under a name. *)
FirstRegistered(name) ==
    registered[CHOOSE i \in 1..Len(registered) :
                  /\ registered[i].name = name
                  /\ \A j \in 1..(i - 1) : registered[j].name # name].inst

(* C7: the registry holds, under every name, the first instance that was   *)
(* registered under it: no later instance has replaced it.                 *)
C7_FirstRegisteredKept ==
    \A i \in Entries : plugins[i].inst = FirstRegistered(plugins[i].name)

(* C8: an input that no enabled plugin claims is answered with the         *)
(* fallback responder's string, and no plugin's execute is invoked.        *)
C8_UnclaimedGoesToFallback ==
    (/\ WasCall
     /\ last.context.kind # "bad"
     /\ \A i \in Entries : ~can_handle(plugins[i].inst, last.input).raises
     /\ EnabledClaimants(last.input) = {}) =>
        /\ last.outcome = "returned"
        /\ last.response = <<"I understand you said: '", last.input,
                             "'. I'm still learning how to help you better!">>
        /\ last.executed = <<>>

----------------------------------------------------------------------------
(* Properties of the conversation history. *)

(* C5: once more than 50 exchanges have been appended since construction   *)
(* or the last reset, the history is exactly the last 50 of them, in the   *)
(* order they were appended.                                               *)
C5_LastFiftySurvive ==
    Len(log) > 50 =>
        /\ Len(history) = 50
        /\ history = SubSeq(log, Len(log) - 49, Len(log))

(* Witness of C5: 52 calls completed, one of them through the plugin, and  *)
(* the plugin's exchange is among the 50 kept.                             *)
C5_Witness ==
    /\ Len(log) = 52
    /\ Len(history) = 50
    /\ WasCall
    /\ \E i \in 1..Len(history) :
          history[i].assistant = PluginOutput("Tasks", "add task buy milk")

(* C9: a call that completes through the plugin branch or the fallback     *)
(* branch appends exactly one exchange, holding the call's user_input and  *)
(* the string the call returned; what was there before stays, except the   *)
(* oldest exchange when the history was full.                              *)
C9_OneExchangePerCall ==
    (WasCall /\ last.branch \in {"plugin", "fallback"}) =>
        /\ Len(history) >= 1
        /\ history[Len(history)].user = last.input
        /\ history[Len(history)].assistant = last.response
        /\ SubSeq(history, 1, Len(history) - 1) =
              IF Len(last.before) < 50 THEN last.before ELSE Tail(last.before)

(* Witness of C9: a call through the plugin branch with a full history. *)
C9_Witness ==
    /\ WasCall /\ last.branch = "plugin"
    /\ Len(last.before) = 50
    /\ history[50].assistant = last.response

(* C10: the history never holds more than 50 exchanges. *)
C10_AtMostFifty == Len(history) <= 50

(* Witness of C10: add_exchange called directly on a full history. *)
C10_Witness ==
    /\ last.op = "add_exchange"
    /\ Len(last.before) = 50
    /\ Len(history) = 50

----------------------------------------------------------------------------
(* The read-only operations: get_status, get_capabilities, get_plugin. *)

(* An Optional value: None is the empty tuple, a value v is <<v>>. *)
None == <<>>

Some(v) == <<v>>

(* A get_last_interaction_time that reads the oldest exchange. *)
get_last_interaction_time_oldest(hist) ==
    IF Len(hist) > 0 THEN Some(hist[1].timestamp) ELSE None

(* get_last_interaction_time: conversation_history[-1]["timestamp"], or    *)
(* None for an empty history.                                              *)
get_last_interaction_time(hist) ==
    IF Len(hist) > 0 THEN Some(hist[Len(hist)].timestamp) ELSE None

(* is_available *)
is_available(inited) == inited

(* list_plugins / list(self.plugins.keys()): the names in insertion order. *)
list_plugins(reg) == [i \in 1..Len(reg) |-> reg[i].name]

(* PersonalAssistant.get_status: the dict it returns. *)
get_status(reg, hist) ==
    [plugins_loaded      |-> Len(reg),
     conversation_active |-> is_active(hist),
     last_interaction    |-> get_last_interaction_time(hist),
     capabilities        |-> list_plugins(reg)]

(* plugin.get_capabilities(): a description of the plugin; TaskPlugin's is *)
(* a dict of name, description, commands and version.                      *)
PluginCapabilities(inst) ==
    [name |-> inst.cls, commands |-> Claims(inst.cls)]

(* PersonalAssistant.get_capabilities: the dict it returns, with the       *)
(* plugins' descriptions in registry order and the clock reading t.        *)
get_capabilities(reg, inited, t) ==
    [plugins      |-> [i \in 1..Len(reg) |->
                          [name |-> reg[i].name, caps |-> PluginCapabilities(reg[i].inst)]],
     conversation |-> is_available(inited),
     timestamp    |-> t]

(* PluginError(f"Plugin '{name}' not found") *)
PluginNotFound(name) ==
    [base |-> "Exception", cls |-> "PluginError",
     msg |-> <<"Plugin '", name, "' not found">>]

(* A get_plugin that answers a missing name with the first plugin. *)
get_plugin_lenient(reg, name) ==
    IF DictIndex(reg, name) = 0
    THEN IF Len(reg) > 0 THEN Returned(reg[1].inst) ELSE Raised(PluginNotFound(name), <<>>)
    ELSE Returned(reg[DictIndex(reg, name)].inst)

(* PluginManager.get_plugin *)
get_plugin(reg, name) ==
    IF DictIndex(reg, name) = 0
    THEN Raised(PluginNotFound(name), <<>>)
    ELSE Returned(reg[DictIndex(reg, name)].inst)

(* What a read-only operation leaves in last: it returned value. *)
Answered(value, t) == Completed("none", history, t, value, <<>>, <<>>, EmptyMap)

(* What an operation that raised to its caller leaves in last. *)
Propagated(exc, t) ==
    [Answered(<<>>, t) EXCEPT !.outcome = "propagated", !.exc = exc]

(* A get_status that clears the history it reports on. *)
GetStatusClearing ==
    /\ last' = Observed("get_status", "", NoneContext, now,
                        Answered(get_status(plugins, history), now), history)
    /\ history' = <<>>
    /\ UNCHANGED <<plugins, registered, initialized, now, log>>

(* assistant.get_status() *)
GetStatus ==
    /\ last' = Observed("get_status", "", NoneContext, now,
                        Answered(get_status(plugins, history), now), history)
    /\ UNCHANGED <<plugins, registered, history, initialized, now, log>>

(* assistant.get_capabilities(); it reads the clock. *)
GetCapabilities(d) ==
    /\ last' = Observed("get_capabilities", "", NoneContext, now + d,
                        Answered(get_capabilities(plugins, initialized, now + d), now + d),
                        history)
    /\ now' = now + d
    /\ UNCHANGED <<plugins, registered, history, initialized, log>>

(* assistant.plugin_manager.get_plugin(name) *)
GetPlugin(name) ==
    LET g == get_plugin(plugins, name)
    IN  /\ last' = Observed("get_plugin", name, NoneContext, now,
                            IF g.raises THEN Propagated(g.exc, now)
                                        ELSE Answered(g.value, now),
                            history)
        /\ UNCHANGED <<plugins, registered, history, initialized, now, log>>

(* The names looked up: the stems of the plugin files and a name that no   *)
(* file has.                                                               *)
LookupNames == {Stems[1], Stems[2], "missing"}

(* The assistants the read-only operations are tried on: no plugin, one    *)
(* plugin, two plugins, and one plugin disabled.                           *)
ApiDirs ==
    { <<InitFile>>,
      <<InitFile, PluginFile(Stems[1], [classes |-> <<"Tasks">>, imports |-> TRUE])>>,
      <<InitFile, PluginFile(Stems[1], [classes |-> <<"Reminders">>, imports |-> TRUE]),
                  PluginFile(Stems[2], [classes |-> <<"Tasks">>, imports |-> TRUE])>> }

ApiInit == \E dir \in ApiDirs, config \in PluginConfigs : Constructed(dir, config)

ApiCall ==
    /\ Counted(MaxApiCalls)
    /\ \E user_input \in Inputs : ProcessInput(user_input, NoneContext, 1)
    /\ UNCHANGED <<varied, running>>

ApiReset ==
    /\ Counted(MaxApiCalls)
    /\ ResetConversation
    /\ UNCHANGED <<varied, running>>

ApiStatus ==
    /\ Counted(MaxApiCalls)
    /\ GetStatus
    /\ UNCHANGED <<varied, running>>

ApiCapabilities ==
    /\ Counted(MaxApiCalls)
    /\ GetCapabilities(1)
    /\ UNCHANGED <<varied, running>>

ApiGetPlugin ==
    /\ Counted(MaxApiCalls)
    /\ \E name \in LookupNames : GetPlugin(name)
    /\ UNCHANGED <<varied, running>>

ApiNext == ApiCall \/ ApiReset \/ ApiStatus \/ ApiCapabilities \/ ApiGetPlugin

SpecApi == ApiInit /\ [][ApiNext]_vars

(* What the program itself holds: the registry with its plugins' state,    *)
(* the history and the initialized flag.                                   *)
ProgramState == <<plugins, registered, history, initialized>>

(* C11: reset_conversation leaves the history empty, so is_active is false *)
(* right after it, and a second reset_conversation in a row leaves the     *)
(* program's state as the first left it.                                   *)
C11_ResetEmptiesAndIsIdempotent ==
    [][ (last'.op = "reset") =>
            /\ history' = <<>>
            /\ ~is_active(history')
            /\ (last.op = "reset") => (ProgramState' = ProgramState) ]_vars

(* Witness of C11: reset_conversation has just emptied a history that held *)
(* two exchanges.                                                          *)
C11_Witness ==
    /\ last.op = "reset"
    /\ Len(last.before) = 2
    /\ history = <<>>
    /\ ~get_status(plugins, history).conversation_active

(* C14: get_status and get_capabilities change nothing the program holds:  *)
(* the history, the registry's names and their order, and every plugin's   *)
(* state are after the call what they were before it.                      *)
C14_QueriesChangeNothing ==
    [][ (last'.op \in {"get_status", "get_capabilities"}) =>
            /\ history' = history
            /\ list_plugins(plugins') = list_plugins(plugins)
            /\ plugins' = plugins
            /\ ProgramState' = ProgramState ]_vars

(* Witness of C14: get_capabilities has answered for two plugins while the *)
(* history held an exchange, and the history is what it was.               *)
C14_Witness ==
    /\ last.op = "get_capabilities"
    /\ Len(last.response.plugins) = 2
    /\ Len(last.before) > 0
    /\ history = last.before

(* C15: get_status reports conversation_active true exactly when the       *)
(* history holds an exchange, and last_interaction as the timestamp of the *)
(* exchange appended last, or None when the history is empty.              *)
C15_StatusReflectsHistory ==
    (last.op = "get_status") =>
        /\ last.response.conversation_active = (Len(history) >= 1)
        /\ (Len(history) >= 1) =>
              /\ Len(log) >= 1
              /\ last.response.last_interaction = Some(log[Len(log)].timestamp)
        /\ (Len(history) = 0) => (last.response.last_interaction = None)

(* Witness of C15: get_status has answered on a history of two exchanges   *)
(* with different timestamps.                                              *)
C15_Witness ==
    /\ last.op = "get_status"
    /\ Len(history) = 2
    /\ history[1].timestamp # history[2].timestamp
    /\ last.response.conversation_active
    /\ last.response.last_interaction = Some(history[2].timestamp)

(* C16: get_plugin(name) returns the instance registered under name when   *)
(* name is a key of the registry and raises PluginError when it is not,    *)
(* and leaves the registry as it was in both cases.                        *)
C16_GetPluginFindsOrRaises ==
    [][ (last'.op = "get_plugin") =>
            LET name == last'.input
                at   == {i \in 1..Len(plugins) : plugins[i].name = name}
            IN  /\ (at # {}) =>
                      /\ last'.outcome = "returned"
                      /\ \A i \in at : last'.response = plugins[i].inst
                /\ (at = {}) =>
                      /\ last'.outcome = "propagated"
                      /\ last'.exc.cls = "PluginError"
                /\ plugins' = plugins
                /\ registered' = registered ]_vars

(* Witness of C16: get_plugin has returned the second of two registered    *)
(* plugins, which differs from the first.                                  *)
C16_Witness ==
    /\ last.op = "get_plugin"
    /\ Len(plugins) = 2
    /\ last.input = plugins[2].name
    /\ last.outcome = "returned"
    /\ last.response = plugins[2].inst
    /\ plugins[2].inst # plugins[1].inst

----------------------------------------------------------------------------
(* Long runs under a clock that may stand still between two readings.      *)

(* A call during which the clock does not advance: its exchange carries    *)
(* the timestamp of the reading before it.                                 *)
CapStalledCall ==
    /\ Counted(MaxCapCalls)
    /\ Varied
    /\ UNCHANGED running
    /\ ProcessInput(DefaultInput, NoneContext, 0)

ClockNext == CapDefaultCall \/ CapStalledCall \/ CapReset

SpecClock == CapInit /\ [][ClockNext]_vars

(* C17: under a clock that never goes backwards, the timestamps of the     *)
(* history never decrease from the oldest exchange to the newest; the      *)
(* truncation at the cap and reset keep it so.                             *)
C17_TimestampsNeverDecrease ==
    \A i \in 1..(Len(history) - 1) :
        history[i].timestamp <= history[i + 1].timestamp

(* Witness of C17: the history is full and has lost its oldest exchange,   *)
(* and two neighbours in it carry the same timestamp.                      *)
C17_Witness ==
    /\ Len(history) = MAX_HISTORY
    /\ Len(log) > MAX_HISTORY
    /\ \E i \in 1..(Len(history) - 1) :
          history[i].timestamp = history[i + 1].timestamp
    /\ history[1].timestamp < history[Len(history)].timestamp

----------------------------------------------------------------------------
(* TaskPlugin called directly, as the tests of the repository call it.     *)

(* plugin.execute(user_input, context) on the plugin at position i of the  *)
(* registry; the clock advances by d before the call reads it.             *)
DirectExecute(i, user_input, context, d) ==
    LET inst == plugins[i].inst
        r    == execute(inst, user_input, context, now + d)
    IN  /\ plugins' = [plugins EXCEPT ![i].inst =
                          after_execute(inst, user_input, context, now + d)]
        /\ now' = now + d
        /\ last' = Observed("execute", user_input, context, now + d,
                            [(IF r.raises THEN Propagated(r.exc, now + d)
                                          ELSE Answered(r.value, now + d))
                                EXCEPT !.executed = <<i>>],
                            history)
        /\ UNCHANGED <<registered, history, initialized, log>>

(* A can_handle that empties the task list of the plugin it asks. *)
DirectCanHandleClearing(i, user_input) ==
    LET c == can_handle(plugins[i].inst, user_input)
    IN  /\ last' = Observed("can_handle", user_input, NoneContext, now,
                            [Answered(c.value, now) EXCEPT !.asked = <<i>>], history)
        /\ plugins' = [plugins EXCEPT ![i].inst.tasks = <<>>]
        /\ UNCHANGED <<registered, history, initialized, now, log>>

(* plugin.can_handle(user_input) on the plugin at position i. *)
DirectCanHandle(i, user_input) ==
    LET c == can_handle(plugins[i].inst, user_input)
    IN  /\ last' = Observed("can_handle", user_input, NoneContext, now,
                            [Answered(c.value, now) EXCEPT !.asked = <<i>>], history)
        /\ UNCHANGED <<plugins, registered, history, initialized, now, log>>

(* The task list of the plugin at position i. *)
TasksOf(reg, i) == reg[i].inst.tasks

(* An assistant whose plugin directory holds task_plugin.py. *)
TaskInit ==
    Constructed(<<InitFile, PluginFile(Stems[1], [classes |-> <<"TaskPlugin">>,
                                                  imports |-> TRUE])>>,
                EmptyMap)

MaxTaskCalls == 6

MaxTasks == 2

Descriptions ==
    { <<"b", "u", "y", " ", "m", "i", "l", "k">>,
      <<"C", "a", "l", "l", " ", "B", "o", "b">> }

AddBuyMilk == <<"a", "d", "d", " ", "t", "a", "s", "k", " ", "b", "u", "y", " ", "m", "i", "l", "k">>

AddCallBob == <<"A", "d", "d", " ", "T", "a", "s", "k", " ", " ", "C", "a", "l", "l", " ", "B", "o", "b", " ">>

CompleteOne == <<"c", "o", "m", "p", "l", "e", "t", "e", " ", "t", "a", "s", "k", " ", "1">>

CompleteTwo == <<"c", "o", "m", "p", "l", "e", "t", "e", " ", "t", "a", "s", "k", " ", "2">>

RemoveOne == <<"r", "e", "m", "o", "v", "e", " ", "t", "a", "s", "k", " ", "1">>

ListTasks == <<"l", "i", "s", "t", " ", "t", "a", "s", "k", "s">>

Todo == <<"t", "o", "d", "o">>

RemoveTwo == <<"r", "e", "m", "o", "v", "e", " ", "t", "a", "s", "k", " ", "2">>

RemoveFromList == <<"r", "e", "m", "o", "v", "e", " ", "t", "a", "s", "k", " ", "1", " ", "f", "r", "o", "m", " ", "m", "y", " ", "l", "i", "s", "t">>

Hello == <<"h", "e", "l", "l", "o">>

(* The commands executed: two adds (one in capitals with blanks around the *)
(* description), two completes, two removes, a remove with more words, a   *)
(* list and a call for help.                                               *)
TaskInputs ==
    {AddBuyMilk, AddCallBob, CompleteOne, CompleteTwo, RemoveOne, RemoveTwo,
     RemoveFromList, ListTasks, Todo}

TaskExecute ==
    /\ Counted(MaxTaskCalls)
    /\ \E user_input \in TaskInputs : DirectExecute(1, user_input, EmptyMap, 1)
    /\ Len(TasksOf(plugins', 1)) <= MaxTasks
    /\ UNCHANGED <<varied, running>>

TaskCanHandle ==
    /\ Counted(MaxTaskCalls)
    /\ \E user_input \in {AddBuyMilk, Hello} : DirectCanHandle(1, user_input)
    /\ UNCHANGED <<varied, running>>

TaskNext == TaskExecute \/ TaskCanHandle

SpecTask == TaskInit /\ [][TaskNext]_vars

----------------------------------------------------------------------------
(* TaskPlugin.execute on inputs of any length.                             *)

MaxFaultCalls == 3

(* A run of n sevens. *)
Sevens(n) == [i \in 1..n |-> "7"]

(* 'complete task ' and 'remove task ' followed by one digit more than     *)
(* int() accepts.                                                          *)
CompleteOverlong == CompletePattern \o Sevens(MAX_STR_DIGITS + 1)

RemoveOverlong == RemovePattern \o Sevens(MAX_STR_DIGITS + 1)

(* 'complete task' and 'remove task' without a number. *)
CompleteNoId == <<"c", "o", "m", "p", "l", "e", "t", "e", " ", "t", "a", "s", "k">>

RemoveNoId == <<"r", "e", "m", "o", "v", "e", " ", "t", "a", "s", "k", " ", "s", "o", "o", "n">>

FaultInputs ==
    {AddBuyMilk, CompleteOne, RemoveOne, CompleteNoId, RemoveNoId,
     CompleteOverlong, RemoveOverlong}

FaultContexts == {EmptyMap, [source |-> "cli"]}

FaultExecute ==
    /\ Counted(MaxFaultCalls)
    /\ \E user_input \in FaultInputs, context \in FaultContexts :
          DirectExecute(1, user_input, context, 1)
    /\ UNCHANGED <<varied, running>>

FaultNext == FaultExecute

SpecFault == TaskInit /\ [][FaultNext]_vars

----------------------------------------------------------------------------
(* TaskPlugin.can_handle on every short string over a few characters.      *)

MaxWordLen == 5

(* The characters of "todo" and "to-do", and a capital. *)
Alphabet == {"t", "o", "d", "-", "T"}

ShortStrings == UNION {[1..n -> Alphabet] : n \in 0..MaxWordLen}

KeywordInputs ==
    ShortStrings \cup
    { <<"R", "e", "m", "e", "m", "b", "e", "r", " ", "t", "h", "e", " ", "m", "i", "l", "k">>,
      <<"R", "E", "M", "I", "N", "D", " ", "m", "e">>,
      <<"m", "y", " ", "T", "a", "s", "k", "s">>,
      <<"r", "e", "m", "a", "i", "n">>,
      <<"t", "a", "s", " ", "k">>,
      <<"t", "o", " ", "d", "o">>,
      <<"r", "e", "m", "e", "m", "b">>,
      <<"w", "h", "a", "t", "'", "s", " ", "t", "h", "e", " ", "w", "e", "a", "t", "h", "e", "r">>,
      Hello, AddBuyMilk, Todo }

(* can_handle is asked once, on the plugin as it was constructed. *)
KeywordCanHandle ==
    /\ last.op = "init"
    /\ \E user_input \in KeywordInputs : DirectCanHandle(1, user_input)
    /\ UNCHANGED <<steps, varied, running>>

KeywordNext == KeywordCanHandle

SpecKeywords == TaskInit /\ [][KeywordNext]_vars

----------------------------------------------------------------------------
(* Two TaskPlugin instances in one registry, reached through process_input *)
(* and directly.                                                           *)

MaxRouteCalls == 3

RouteInit ==
    Constructed(<<InitFile,
                  PluginFile(Stems[1], [classes |-> <<"TaskPlugin">>, imports |-> TRUE]),
                  PluginFile(Stems[2], [classes |-> <<"TaskPlugin">>, imports |-> TRUE])>>,
                EmptyMap)

RouteInputs == {AddBuyMilk, CompleteOne, Hello}

RouteCall ==
    /\ Counted(MaxRouteCalls)
    /\ \E user_input \in RouteInputs : ProcessInput(user_input, NoneContext, 1)
    /\ UNCHANGED <<varied, running>>

RouteExecute ==
    /\ Counted(MaxRouteCalls)
    /\ \E i \in 1..Len(plugins), user_input \in {AddBuyMilk, CompleteOne} :
          DirectExecute(i, user_input, EmptyMap, 1)
    /\ UNCHANGED <<varied, running>>

RouteCanHandle ==
    /\ Counted(MaxRouteCalls)
    /\ \E i \in 1..Len(plugins), user_input \in {AddBuyMilk, Hello} :
          DirectCanHandle(i, user_input)
    /\ UNCHANGED <<varied, running>>

RouteNext == RouteCall \/ RouteExecute \/ RouteCanHandle

SpecRoute == RouteInit /\ [][RouteNext]_vars

----------------------------------------------------------------------------
(* Properties of TaskPlugin. *)

(* Some slice of s is w. *)
HasSubstring(s, w) ==
    \E a \in 0..Len(s), b \in 0..Len(s) : a <= b /\ SubSeq(s, a + 1, b) = w

(* C12: TaskPlugin.execute never raises: whatever the input, the context   *)
(* and the task list, it returns a response.                               *)
C12_ExecuteNeverRaises ==
    (last.op = "execute") => (last.outcome = "returned")

(* C13: can_handle changes nothing, and a process_input call changes the   *)
(* state of no plugin but the one whose execute it invokes.                *)
C13_CanHandleAndScanArePure ==
    [][ /\ (last'.op = "can_handle") => (plugins' = plugins)
        /\ (last'.op = "process_input") =>
              /\ Len(plugins') = Len(plugins)
              /\ \A i \in 1..Len(plugins) :
                    (\A e \in 1..Len(last'.executed) : last'.executed[e] # i)
                        => (plugins'[i] = plugins[i]) ]_vars

(* Witness of C13: process_input asked and executed the first plugin,      *)
(* which gained a task, while the second plugin kept the task it had.      *)
C13_Witness ==
    /\ last.op = "process_input"
    /\ last.asked = <<1>>
    /\ last.executed = <<1>>
    /\ Len(plugins) = 2
    /\ Len(TasksOf(plugins, 1)) = 1
    /\ Len(TasksOf(plugins, 2)) = 1
    /\ TasksOf(plugins, 2)[1].created < TasksOf(plugins, 1)[1].created

(* The ways 'add task ' is typed, and the blanks around a description. *)
AddSpellings ==
    { AddPattern,
      <<"A", "d", "d", " ", "T", "a", "s", "k", " ">> }

Blanks == {<<>>, <<" ">>}

AddedTask == <<"A", "d", "d", "e", "d", " ", "t", "a", "s", "k", ":", " ">>

(* C18: executing 'add task <description>', for a description that is not  *)
(* empty, appends one task with that description and completed = false,    *)
(* leaves the tasks before it as they were and returns a response that     *)
(* contains 'Added task: <description>'.  The description is what stands   *)
(* after 'add task ', blanks around it aside.                              *)
C18_AddAppendsOneTask ==
    [][ \A spelling \in AddSpellings, d \in Descriptions, w1 \in Blanks, w2 \in Blanks :
          (last'.op = "execute" /\ last'.input = spelling \o w1 \o d \o w2) =>
              LET before == TasksOf(plugins, 1)
                  after  == TasksOf(plugins', 1)
              IN  /\ Len(after) = Len(before) + 1
                  /\ SubSeq(after, 1, Len(before)) = before
                  /\ after[Len(after)].description = d
                  /\ after[Len(after)].completed = FALSE
                  /\ last'.outcome = "returned"
                  /\ HasSubstring(last'.response, AddedTask \o d) ]_vars

(* Witness of C18: 'Add Task  Call Bob ' has been executed on a list that  *)
(* held one completed task, which is still there as it was.                *)
C18_Witness ==
    /\ last.op = "execute"
    /\ last.input = AddCallBob
    /\ Len(TasksOf(plugins, 1)) = 2
    /\ TasksOf(plugins, 1)[1].description = <<"b", "u", "y", " ", "m", "i", "l", "k">>
    /\ TasksOf(plugins, 1)[1].completed
    /\ TasksOf(plugins, 1)[2].description = <<"C", "a", "l", "l", " ", "B", "o", "b">>
    /\ ~TasksOf(plugins, 1)[2].completed

(* 'complete task n' for n = 1, 2. *)
CompleteInputs == <<CompleteOne, CompleteTwo>>

CompletedTask == <<"C", "o", "m", "p", "l", "e", "t", "e", "d", " ", "t", "a", "s", "k", ":", " ">>

(* C19: executing 'complete task <id>' while a task with that id is not    *)
(* yet completed sets that task's completed flag, returns a response that  *)
(* contains 'Completed task: <its description>', and leaves the number of  *)
(* tasks and every other task as they were.                                *)
C19_CompleteMarksTheTask ==
    [][ \A n \in 1..Len(CompleteInputs) :
          LET before == TasksOf(plugins, 1)
              after  == TasksOf(plugins', 1)
              open   == {k \in 1..Len(before) : before[k].id = n /\ ~before[k].completed}
          IN  (last'.op = "execute" /\ last'.input = CompleteInputs[n] /\ open # {}) =>
                  /\ Len(after) = Len(before)
                  /\ \E k \in open :
                        /\ after[k].completed
                        /\ after[k].id = before[k].id
                        /\ after[k].description = before[k].description
                        /\ HasSubstring(last'.response,
                                        CompletedTask \o before[k].description)
                        /\ \A j \in 1..Len(before) : (j # k) => (after[j] = before[j]) ]_vars

(* The substrings the claim names. *)
ClaimedKeywords ==
    { <<"t", "a", "s", "k">>,
      <<"t", "o", "d", "o">>,
      <<"t", "o", "-", "d", "o">>,
      <<"r", "e", "m", "i", "n", "d">>,
      <<"r", "e", "m", "e", "m", "b", "e", "r">> }

(* C20: TaskPlugin.can_handle returns true exactly when the lower-cased    *)
(* input contains one of 'task', 'todo', 'to-do', 'remind', 'remember'.    *)
C20_CanHandleIffKeyword ==
    (last.op = "can_handle") =>
        (last.response = (\E w \in ClaimedKeywords : HasSubstring(lower(last.input), w)))

(* Witness of C20: can_handle has accepted an input that holds a keyword   *)
(* only once it is lower-cased.                                            *)
C20_Witness ==
    /\ last.op = "can_handle"
    /\ last.response = TRUE
    /\ HasSubstring(lower(last.input), <<"t", "o", "-", "d", "o">>)
    /\ \A w \in ClaimedKeywords : ~HasSubstring(last.input, w)

NoTasksFoundWords == <<"N", "o", " ", "t", "a", "s", "k", "s", " ", "f", "o", "u", "n", "d">>

(* C21: executing 'list tasks' returns the 'No tasks found' response       *)
(* exactly when the task list is empty, and otherwise a response that      *)
(* contains the description of every task of the list, active or           *)
(* completed; the task list is left as it was.                             *)
C21_ListShowsEveryTask ==
    [][ (last'.op = "execute" /\ last'.input = ListTasks) =>
            LET before == TasksOf(plugins, 1)
                after  == TasksOf(plugins', 1)
            IN  /\ last'.outcome = "returned"
                /\ (last'.response = NoTasksFound) <=> (before = <<>>)
                /\ HasSubstring(last'.response, NoTasksFoundWords) <=> (before = <<>>)
                /\ \A k \in 1..Len(before) :
                      HasSubstring(last'.response, before[k].description)
                /\ after = before ]_vars

(* Witness of C21: 'list tasks' has been executed on a list of one         *)
(* completed and one active task with different descriptions, and the      *)
(* response names both.                                                    *)
C21_Witness ==
    /\ last.op = "execute"
    /\ last.input = ListTasks
    /\ Len(TasksOf(plugins, 1)) = 2
    /\ TasksOf(plugins, 1)[1].completed
    /\ ~TasksOf(plugins, 1)[2].completed
    /\ TasksOf(plugins, 1)[1].description # TasksOf(plugins, 1)[2].description
    /\ \A k \in 1..2 : HasSubstring(last.response, TasksOf(plugins, 1)[k].description)

(* C22: no two tasks of the list have the same id, whatever commands have  *)
(* been executed.                                                          *)
C22_TaskIdsUnique ==
    \A i \in 1..Len(TasksOf(plugins, 1)), j \in 1..Len(TasksOf(plugins, 1)) :
        (i # j) => (TasksOf(plugins, 1)[i].id # TasksOf(plugins, 1)[j].id)

(* 'remove task n' for n = 1, 2. *)
RemoveInputs == <<RemoveOne, RemoveTwo>>

(* The list without its k-th element. *)
Without(list, k) == SubSeq(list, 1, k - 1) \o SubSeq(list, k + 1, Len(list))

(* C23: executing 'remove task <id>' while a task with that id is in the   *)
(* list removes exactly one task, leaves every other task and their order  *)
(* as they were, and afterwards no task of the list has that id.           *)
C23_RemoveTakesTheTaskOut ==
    [][ \A n \in 1..Len(RemoveInputs) :
          LET before == TasksOf(plugins, 1)
              after  == TasksOf(plugins', 1)
              named  == {k \in 1..Len(before) : before[k].id = n}
          IN  (last'.op = "execute" /\ last'.input = RemoveInputs[n] /\ named # {}) =>
                  /\ Len(after) = Len(before) - 1
                  /\ \E k \in named : after = Without(before, k)
                  /\ \A j \in 1..Len(after) : after[j].id # n ]_vars

(* The commands that name an id, with the id they name, and the commands   *)
(* that name none, with the usage response of their operation.             *)
IdCommands ==
    { [input |-> CompleteOne,      id |-> str(1)],
      [input |-> RemoveOne,        id |-> str(1)],
      [input |-> CompleteOverlong, id |-> Sevens(MAX_STR_DIGITS + 1)],
      [input |-> RemoveOverlong,   id |-> Sevens(MAX_STR_DIGITS + 1)] }

NoIdCommands ==
    { [input |-> CompleteNoId, usage |-> CompleteUsage],
      [input |-> RemoveNoId,   usage |-> RemoveUsage] }

(* C24: executing 'complete task <id>' or 'remove task <id>' with an id    *)
(* that no task of the list has returns a not-found response, with no      *)
(* number at all it returns a usage response, and in both cases the task   *)
(* list is left as it was.                                                 *)
C24_UnknownIdChangesNothing ==
    [][ (last'.op = "execute") =>
            LET before == TasksOf(plugins, 1)
                after  == TasksOf(plugins', 1)
            IN  /\ \A c \in IdCommands :
                      (/\ last'.input = c.input
                       /\ \A k \in 1..Len(before) : str(before[k].id) # c.id) =>
                          /\ last'.outcome = "returned"
                          /\ last'.response = NotFound(c.id)
                          /\ after = before
                /\ \A c \in NoIdCommands :
                      (last'.input = c.input) =>
                          /\ last'.outcome = "returned"
                          /\ last'.response = c.usage
                          /\ after = before ]_vars

(* The input holds the pattern followed by a digit, in any case. *)
NamesCommand(user_input, pattern) ==
    \E d \in Digits : HasSubstring(lower(user_input), pattern \o <<d>>)

(* The input holds none of add, list, complete and remove together with    *)
(* 'task'.                                                                 *)
NamesNoCommand(user_input) ==
    \A word \in {AddWord, ListWord, CompleteWord, RemoveWord} :
        ~(HasSubstring(lower(user_input), word) /\ HasSubstring(lower(user_input), TaskWord))

(* C25: an input that holds 'remove task <id>' reaches the remove          *)
(* operation and one that holds 'complete task <id>' the complete          *)
(* operation, whatever else the input holds; an input that can_handle      *)
(* accepts and that names no command returns the help text and leaves the  *)
(* task list as it was.                                                    *)
C25_DispatchOnNamedCommand ==
    [][ (last'.op = "execute") =>
            LET user_input == last'.input
                before == TasksOf(plugins, 1)
                done   == Left(IF last'.outcome = "returned"
                               THEN Returned(last'.response)
                               ELSE Raised(last'.exc, <<>>),
                               TasksOf(plugins', 1))
            IN  /\ NamesCommand(user_input, RemovePattern) =>
                      (done = remove_task(before, user_input))
                /\ NamesCommand(user_input, CompletePattern) =>
                      (done = complete_task(before, user_input, last'.read))
                /\ (TaskPlugin_can_handle(user_input) /\ NamesNoCommand(user_input)) =>
                      (done = Left(Returned(HelpText), before)) ]_vars

(* C26: a completed task stays completed, with the completed_at it has,    *)
(* for as long as it is in the list, and 'complete task <id>' on a task    *)
(* that is completed already says so and changes nothing.  A task is       *)
(* known by the time of its creation.                                      *)
C26_CompletionIsMonotonic ==
    [][ LET before == TasksOf(plugins, 1)
            after  == TasksOf(plugins', 1)
        IN  /\ \A i \in 1..Len(before), j \in 1..Len(after) :
                  (before[i].created = after[j].created /\ before[i].completed) =>
                      /\ after[j].completed
                      /\ after[j].completed_at = before[i].completed_at
            /\ \A n \in 1..Len(CompleteInputs) :
                  (/\ last'.op = "execute"
                   /\ last'.input = CompleteInputs[n]
                   /\ \E k \in 1..Len(before) : before[k].id = n /\ before[k].completed) =>
                      /\ last'.response = AlreadyCompleted(str(n))
                      /\ after = before ]_vars

(* Witness of C26: 'complete task 2' has been answered with 'already       *)
(* completed' for a task completed two commands earlier, which still       *)
(* carries the completed_at of that time.                                  *)
C26_Witness ==
    /\ last.op = "execute"
    /\ last.input = CompleteTwo
    /\ last.response = AlreadyCompleted(str(2))
    /\ \E k \in 1..Len(TasksOf(plugins, 1)) :
          /\ TasksOf(plugins, 1)[k].id = 2
          /\ TasksOf(plugins, 1)[k].completed
          /\ TasksOf(plugins, 1)[k].completed_at + 2 = last.read

----------------------------------------------------------------------------
(* CLIInterface (src/ui/cli.py): the interactive loop of start().          *)

Quit == <<"q", "u", "i", "t">>

Exit == <<"e", "x", "i", "t">>

Bye == <<"b", "y", "e">>

Help == <<"h", "e", "l", "p">>

Status == <<"s", "t", "a", "t", "u", "s">>

Capabilities == <<"c", "a", "p", "a", "b", "i", "l", "i", "t", "i", "e", "s">>

ResetWord == <<"r", "e", "s", "e", "t">>

(* A loop that compares the input with the commands as it was typed. *)
cli_command_cased(user_input) ==
    IF user_input = <<>> THEN "empty"
    ELSE IF user_input \in {Quit, Exit, Bye} THEN "quit"
    ELSE IF user_input = Help THEN "help"
    ELSE IF user_input = Status THEN "status"
    ELSE IF user_input = Capabilities THEN "capabilities"
    ELSE IF user_input = ResetWord THEN "reset"
    ELSE "forward"

(* The branch of the loop body that the stripped input takes. *)
cli_command(user_input) ==
    IF user_input = <<>> THEN "empty"
    ELSE IF lower(user_input) \in {Quit, Exit, Bye} THEN "quit"
    ELSE IF lower(user_input) = Help THEN "help"
    ELSE IF lower(user_input) = Status THEN "status"
    ELSE IF lower(user_input) = Capabilities THEN "capabilities"
    ELSE IF lower(user_input) = ResetWord THEN "reset"
    ELSE "forward"

(* What one pass of the loop leaves in last: the line read, the branch     *)
(* taken and the inputs it passed to process_input.                        *)
CliObserved(op, line, command, forwarded, read, r) ==
    DictMerge(Observed(op, line, NoneContext, read, r, history),
              [command |-> command, forwarded |-> forwarded])

(* start(), up to the loop: self.running = True. *)
CliStart ==
    /\ ~running
    /\ last.op = "init"
    /\ running' = TRUE
    /\ last' = CliObserved("cli_start", <<>>, "none", <<>>, now, Answered(<<>>, now))
    /\ UNCHANGED <<plugins, registered, history, initialized, now, log>>

(* One pass of the loop on the line the prompt returns; the clock advances *)
(* by d between two readings.  An exception that process_input lets        *)
(* through ends the loop.                                                  *)
CliLine(line, d) ==
    LET user_input == strip(line)
        command    == cli_command(user_input)
        r == process_input(plugins, history, initialized, now + d, now + d + d,
                           user_input, NoneContext)
    IN  /\ running
        /\ CASE command = "quit" ->
                  /\ running' = FALSE
                  /\ last' = CliObserved("cli", line, command, <<>>, now,
                                         Answered(<<>>, now))
                  /\ UNCHANGED <<plugins, history, now, log>>
             [] command \in {"empty", "help"} ->
                  /\ last' = CliObserved("cli", line, command, <<>>, now,
                                         Answered(<<>>, now))
                  /\ UNCHANGED <<plugins, history, now, log, running>>
             [] command = "status" ->
                  /\ last' = CliObserved("cli", line, command, <<>>, now,
                                         Answered(get_status(plugins, history), now))
                  /\ UNCHANGED <<plugins, history, now, log, running>>
             [] command = "capabilities" ->
                  /\ last' = CliObserved("cli", line, command, <<>>, now + d,
                                Answered(get_capabilities(plugins, initialized, now + d),
                                         now + d))
                  /\ now' = now + d
                  /\ UNCHANGED <<plugins, history, log, running>>
             [] command = "reset" ->
                  /\ history' = reset(history)
                  /\ log' = <<>>
                  /\ last' = CliObserved("cli", line, command, <<>>, now,
                                         Answered(<<>>, now))
                  /\ UNCHANGED <<plugins, now, running>>
             [] command = "forward" ->
                  /\ history' = r.history
                  /\ now' = r.now
                  /\ log' = IF r.branch = "fault" THEN log
                            ELSE Append(log, Exchange(now + d + d, user_input, r.response))
                  /\ plugins' = IF r.executed = <<>> THEN plugins
                                ELSE [plugins EXCEPT ![r.executed[1]].inst =
                                         after_execute(plugins[r.executed[1]].inst,
                                                       user_input, r.passed, now + d)]
                  /\ running' = (r.outcome # "propagated")
                  /\ last' = CliObserved("cli", line, command, <<user_input>>, now + d, r)
        /\ UNCHANGED <<registered, initialized>>

(* Ctrl-C at the prompt: KeyboardInterrupt ends the loop. *)
CliInterrupt ==
    /\ running
    /\ running' = FALSE
    /\ last' = CliObserved("cli_interrupt", <<>>, "none", <<>>, now, Answered(<<>>, now))
    /\ UNCHANGED <<plugins, registered, history, initialized, now, log>>

MaxCliLines == 3

(* The lines typed: nothing, blanks, the commands in several cases and     *)
(* with blanks around them, and lines that are no command.                 *)
CliLines ==
    { <<>>,
      <<" ", " ">>,
      <<"q", "u", "i", "t">>,
      <<" ", "E", "x", "i", "t", " ">>,
      <<"B", "Y", "E">>,
      <<"h", "e", "l", "p">>,
      <<"S", "t", "a", "t", "u", "s">>,
      <<"c", "a", "p", "a", "b", "i", "l", "i", "t", "i", "e", "s">>,
      <<"R", "E", "S", "E", "T">>,
      <<"h", "e", "l", "p", " ", "m", "e">>,
      <<"q", "u", "i", "t", "t", "i", "n", "g">>,
      Hello,
      AddBuyMilk }

CliStarts ==
    /\ CliStart
    /\ UNCHANGED <<steps, varied>>

CliReads ==
    /\ Counted(MaxCliLines)
    /\ \E line \in CliLines : CliLine(line, 1)
    /\ UNCHANGED varied

CliInterrupted ==
    /\ Counted(MaxCliLines)
    /\ CliInterrupt
    /\ UNCHANGED varied

CliNext == CliStarts \/ CliReads \/ CliInterrupted

SpecCli == TaskInit /\ [][CliNext]_vars

(* The commands the claim names, and the line as the loop takes it: in     *)
(* lower case, without the blanks around it.                               *)
QuitWords == {Quit, Exit, Bye}

ReservedWords == QuitWords \cup {Help, Status, Capabilities, ResetWord}

Typed(line) == lower(strip(line))

(* C27: in the loop, an empty line and the commands quit, exit, bye, help, *)
(* status, capabilities and reset, in any case, are never passed to        *)
(* process_input and add no exchange to the history; quit, exit and bye    *)
(* end the loop, reset empties the history, and every other line is passed *)
(* to process_input exactly once.                                          *)
C27_ReservedNeverForwarded ==
    [][ last'.op = "cli" =>
            LET line == last'.input
                r    == process_input(plugins, history, initialized, now + 1, now + 2,
                                      strip(line), NoneContext)
            IN  /\ (Typed(line) = <<>> \/ Typed(line) \in ReservedWords) =>
                      /\ last'.forwarded = <<>>
                      /\ Len(history') <= Len(history)
                      /\ log' = log \/ log' = <<>>
                      /\ plugins' = plugins
                /\ Typed(line) \in QuitWords => ~running'
                /\ Typed(line) = ResetWord => history' = <<>>
                /\ (Typed(line) # <<>> /\ Typed(line) \notin ReservedWords) =>
                      /\ last'.forwarded = <<strip(line)>>
                      /\ history' = r.history
                      /\ last'.response = r.response
                      /\ Len(log') = Len(log) + (IF r.branch = "fault" THEN 0 ELSE 1) ]_vars

(* Witness of C27: ' Exit ' has ended a loop that had passed one line to   *)
(* process_input and then emptied the history at 'RESET'.                  *)
C27_Witness ==
    /\ last.op = "cli"
    /\ last.command = "quit"
    /\ last.input = <<" ", "E", "x", "i", "t", " ">>
    /\ ~running
    /\ history = <<>>
    /\ now > 0
    /\ steps = 3

====
